---- MODULE Spec2Model ----
(***************************************************************************)
(* NeatFolder: the organize engine (NeatFolder.organize and its helpers)   *)
(* and the history store with undo/redo (DatabaseLogger), over a model of  *)
(* the directory tree.                                                     *)
(*                                                                         *)
(* Strings are sequences of one-character strings, so that charAt,         *)
(* lastIndexOf, substring, split, startsWith and the template literals of  *)
(* the source are modelled by what they do to the characters.              *)
(***************************************************************************)
EXTENDS Integers, Sequences, FiniteSets, TLC

(***************************************************************************)
(* Bounds of the model.                                                    *)
(***************************************************************************)
\* largest number of files in the initial directory tree
MaxFiles == 2
\* largest number of history records ever inserted (ids 1..MaxOps)
MaxOps == 3
\* largest number of organize() calls on the NeatFolder instance
MaxRuns == 2

(***************************************************************************)
(* String primitives.                                                      *)
(***************************************************************************)
\* s.lastIndexOf(c), 1-based: 0 where JavaScript answers -1
LastIndexOf(s, c) ==
  LET at == {i \in 1..Len(s) : s[i] = c}
  IN  IF at = {} THEN 0 ELSE CHOOSE i \in at : \A j \in at : j <= i

\* p.substring(0, p.lastIndexOf("/"))
DirOf(p) == SubSeq(p, 1, LastIndexOf(p, "/") - 1)

\* p.split("/").pop()
FileNameOf(p) == SubSeq(p, LastIndexOf(p, "/") + 1, Len(p))

\* s.startsWith(prefix)
StartsWith(s, prefix) ==
  Len(s) >= Len(prefix) /\ SubSeq(s, 1, Len(prefix)) = prefix

\* s.endsWith(suffix), the $ anchor of the category patterns
EndsWith(s, suffix) ==
  Len(s) >= Len(suffix) /\ SubSeq(s, Len(s) - Len(suffix) + 1, Len(s)) = suffix

UpperCase == <<"A","B","C","D","E","F","G","H","I","J","K","L","M","N","O","P","Q","R","S","T","U","V","W","X","Y","Z">>
LowerCase == <<"a","b","c","d","e","f","g","h","i","j","k","l","m","n","o","p","q","r","s","t","u","v","w","x","y","z">>

\* String.prototype.toLowerCase on one character
LowerChar(c) ==
  LET at == {i \in 1..Len(UpperCase) : UpperCase[i] = c}
  IN  IF at = {} THEN c ELSE LowerCase[CHOOSE i \in at : TRUE]

\* String.prototype.toLowerCase
RECURSIVE ToLowerCase(_)
ToLowerCase(s) ==
  IF s = <<>> THEN <<>>
  ELSE Append(ToLowerCase(SubSeq(s, 1, Len(s) - 1)), LowerChar(s[Len(s)]))

Digits == <<"0","1","2","3","4","5","6","7","8","9">>

\* Number.prototype.toString for a natural number
RECURSIVE NumToString(_)
NumToString(n) ==
  IF n < 10 THEN <<Digits[n + 1]>>
  ELSE NumToString(n \div 10) \o <<Digits[(n % 10) + 1]>>

\* s.padStart(width, "0")
RECURSIVE PadStart(_, _)
PadStart(s, width) == IF Len(s) >= width THEN s ELSE PadStart(<<"0">> \o s, width)

(***************************************************************************)
(* The directory tree.  A file system is a record                          *)
(*   [files : resolved path -> [content, size, mtime], dirs : set of       *)
(*    resolved directory paths]                                            *)
(* and a path string resolves to the path with its empty and "."           *)
(* components dropped, as the operating system resolves it.                *)
(***************************************************************************)
RECURSIVE Split(_, _)
Split(s, c) ==
  LET last == LastIndexOf(s, c)
  IN  IF last = 0 THEN <<s>>
      ELSE Append(Split(SubSeq(s, 1, last - 1), c), SubSeq(s, last + 1, Len(s)))

RECURSIVE Join(_)
Join(parts) ==
  IF parts = <<>> THEN <<>>
  ELSE Join(SubSeq(parts, 1, Len(parts) - 1)) \o <<"/">> \o parts[Len(parts)]

IsNamedComponent(x) == x # <<>> /\ x # <<".">>

\* the absolute path a path string names
ResolvePath(p) == Join(SelectSeq(Split(p, "/"), IsNamedComponent))

\* the directory and all its ancestors, the root (the empty path) left out
RECURSIVE Ancestry(_)
Ancestry(d) == IF d = <<>> THEN {} ELSE {d} \cup Ancestry(DirOf(d))

\* fs.existsSync(p): a file or a directory is there
ExistsSync(fs, p) ==
  ResolvePath(p) \in DOMAIN fs.files \/ ResolvePath(p) \in fs.dirs \/ ResolvePath(p) = <<>>

\* Bun.file(p).exists(): a regular file is there
FileExists(fs, p) == ResolvePath(p) \in DOMAIN fs.files

IsDirectory(fs, d) == d = <<>> \/ d \in fs.dirs

\* mkdir -p d / fs.mkdirSync(d, {recursive: true}): fails when a component is a file
MkdirP(fs, d) ==
  IF \E a \in Ancestry(ResolvePath(d)) : a \in DOMAIN fs.files
  THEN [ok |-> FALSE, fs |-> fs]
  ELSE [ok |-> TRUE, fs |-> [fs EXCEPT !.dirs = @ \cup Ancestry(ResolvePath(d))]]

\* where mv puts the source: inside the target when the target is a directory
MvDestination(fs, src, tgt) ==
  IF IsDirectory(fs, ResolvePath(tgt))
  THEN ResolvePath(tgt) \o <<"/">> \o FileNameOf(ResolvePath(src))
  ELSE ResolvePath(tgt)

\* mv src tgt on a regular file.  The mv of Bun's shell is a rename(2) of the
\* source to the destination: it replaces a file already there, fails when
\* the destination's directory is missing, and answers success, doing
\* nothing, when source and destination are the same file.
Mv(fs, src, tgt) ==
  LET from == ResolvePath(src)
      to == MvDestination(fs, src, tgt)
  IN  IF from \notin DOMAIN fs.files THEN [ok |-> FALSE, fs |-> fs]
      ELSE IF ~IsDirectory(fs, DirOf(to)) \/ IsDirectory(fs, to)
      THEN [ok |-> FALSE, fs |-> fs]
      ELSE IF from = to THEN [ok |-> TRUE, fs |-> fs]
      ELSE [ok |-> TRUE,
            fs |-> [fs EXCEPT !.files =
                      [p \in (DOMAIN fs.files \ {from}) \cup {to} |->
                          IF p = to THEN fs.files[from] ELSE fs.files[p]]]]

(***************************************************************************)
(* File categories (constants.ts) and the target directory of a file.      *)
(***************************************************************************)
\* FILE_CATEGORIES: the ordered table of (pattern, category); a pattern
\* /\.(e1|e2|...)$/i is given by its set of extensions
FILE_CATEGORIES ==
  << [exts |-> {<<"j","p","g">>, <<"j","p","e","g">>, <<"p","n","g">>, <<"g","i","f">>, <<"b","m","p">>, <<"w","e","b","p">>, <<"s","v","g">>, <<"i","c","o">>},
      category |-> <<"i","m","a","g","e","s">>],
     [exts |-> {<<"p","d","f">>, <<"d","o","c">>, <<"d","o","c","x">>, <<"t","x","t">>, <<"m","d">>, <<"r","t","f">>, <<"o","d","t">>, <<"x","l","s","x">>,
                <<"x","l","s">>, <<"c","s","v">>},
      category |-> <<"d","o","c","u","m","e","n","t","s">>],
     [exts |-> {<<"m","p","3">>, <<"w","a","v">>, <<"f","l","a","c">>, <<"m","4","a">>, <<"a","a","c">>, <<"o","g","g">>, <<"w","m","a">>},
      category |-> <<"a","u","d","i","o">>],
     [exts |-> {<<"m","p","4">>, <<"a","v","i">>, <<"m","k","v">>, <<"m","o","v">>, <<"w","m","v">>, <<"f","l","v">>, <<"w","e","b","m">>},
      category |-> <<"v","i","d","e","o">>],
     [exts |-> {<<"z","i","p">>, <<"r","a","r">>, <<"7","z">>, <<"t","a","r">>, <<"g","z">>, <<"b","z","2">>},
      category |-> <<"a","r","c","h","i","v","e","s">>],
     [exts |-> {<<"j","s">>, <<"t","s">>, <<"p","y">>, <<"j","a","v","a">>, <<"c","p","p">>, <<"c","s">>, <<"p","h","p">>, <<"h","t","m","l">>,
                <<"c","s","s">>, <<"j","s","o","n">>, <<"x","m","l">>},
      category |-> <<"c","o","d","e">>],
     [exts |-> {<<"e","x","e">>, <<"m","s","i">>, <<"a","p","p">>, <<"d","m","g">>, <<"a","p","k">>},
      category |-> <<"e","x","e","c","u","t","a","b","l","e","s">>],
     [exts |-> {<<"t","t","f">>, <<"o","t","f">>, <<"w","o","f","f">>, <<"w","o","f","f","2">>},
      category |-> <<"f","o","n","t","s">>] >>

\* the text a pattern /\.(e1|e2|...)$/i compares with its extensions: the text
\* after the last dot of s, in lower case, or nothing when s has no dot (no
\* extension of the table holds a dot)
Suffix(s) ==
  LET dot == LastIndexOf(s, ".")
  IN  IF dot = 0 THEN <<>> ELSE ToLowerCase(SubSeq(s, dot + 1, Len(s)))

\* getCategoryFromFile with neither toLowerCase nor the i flag of the patterns
getCategoryCaseSensitive(filename) ==
  LET dot == LastIndexOf(filename, ".")
      suffix == IF dot = 0 THEN <<>> ELSE SubSeq(filename, dot + 1, Len(filename))
      hits == {i \in 1..Len(FILE_CATEGORIES) : suffix \in FILE_CATEGORIES[i].exts}
  IN  IF hits = {} THEN <<"o","t","h","e","r","s">>
      ELSE FILE_CATEGORIES[CHOOSE i \in hits : \A j \in hits : i <= j].category

\* getCategoryFromFile: the category of the first pattern that matches
getCategoryFromFile(filename) ==
  LET lowerFilename == ToLowerCase(filename)
      suffix == Suffix(lowerFilename)
      hits == {i \in 1..Len(FILE_CATEGORIES) : suffix \in FILE_CATEGORIES[i].exts}
  IN  IF hits = {} THEN <<"o","t","h","e","r","s">>
      ELSE FILE_CATEGORIES[CHOOSE i \in hits : \A j \in hits : i <= j].category

\* getTargetDirectory with the two size comparisons written <= for <
getTargetDirectoryInclusive(method, file, stats) ==
  CASE method = "size" ->
         IF stats.size <= 1024 * 1024 THEN <<"s","m","a","l","l">>
         ELSE IF stats.size <= 100 * 1024 * 1024 THEN <<"m","e","d","i","u","m">>
         ELSE <<"l","a","r","g","e">>
    [] OTHER -> getCategoryFromFile(file)

\* NeatFolder.getTargetDirectory for a grouping method
getTargetDirectory(method, file, stats) ==
  CASE method = "extension" -> getCategoryFromFile(file)
    [] method = "name" -> ToLowerCase(SubSeq(file, 1, 1))
    [] method = "date" ->
         <<"d","o","c","u","m","e","n","t","s","/">> \o NumToString(stats.mtime.year) \o <<"/">>
           \o PadStart(NumToString(stats.mtime.month + 1), 2)
    [] method = "size" ->
         IF stats.size < 1024 * 1024 THEN <<"s","m","a","l","l">>
         ELSE IF stats.size < 100 * 1024 * 1024 THEN <<"m","e","d","i","u","m">>
         ELSE <<"l","a","r","g","e">>
    [] OTHER -> getCategoryFromFile(file)

(***************************************************************************)
(* DirectoryMap: directory -> set of file names.                           *)
(***************************************************************************)
EmptyMap == [d \in {} |-> {}]

\* if (!m.has(dir)) m.set(dir, new Set()); m.get(dir).add(fileName)
AddToMap(m, dir, fileName) ==
  [d \in DOMAIN m \cup {dir} |->
     IF d = dir THEN (IF dir \in DOMAIN m THEN m[dir] ELSE {}) \cup {fileName}
     ELSE m[d]]

\* the directory key buildDirectoryStructure files a path under
StructureKey(filePath, basePath) ==
  LET dir == DirOf(filePath)
      baseDir == FileNameOf(basePath)
  IN  IF basePath = <<>> THEN dir
      ELSE IF dir = basePath THEN baseDir
      ELSE IF StartsWith(dir, basePath \o <<"/">>)
      THEN baseDir \o <<"/">> \o SubSeq(dir, Len(basePath) + 2, Len(dir))
      ELSE baseDir

\* NeatFolder.buildDirectoryStructure
RECURSIVE buildDirectoryStructure(_, _)
buildDirectoryStructure(filePaths, basePath) ==
  IF filePaths = <<>> THEN EmptyMap
  ELSE AddToMap(buildDirectoryStructure(SubSeq(filePaths, 1, Len(filePaths) - 1), basePath),
                StructureKey(filePaths[Len(filePaths)], basePath),
                FileNameOf(filePaths[Len(filePaths)]))

(***************************************************************************)
(* State.                                                                  *)
(***************************************************************************)
VARIABLES
  files,          \* the directory tree: resolved path -> [content, size, mtime]
  dirs,           \* the directories that exist (resolved paths)
  options,        \* NeatFolder.options, fixed by the constructor
  stats,          \* NeatFolder.stats, one object for the life of the instance
  runs,           \* organize() calls made so far
  history,        \* table organization_history, in insertion order
  fileOperations, \* table file_operations, in insertion order
  lastId,         \* AUTOINCREMENT counter of organization_history
  now,            \* the latest Date.now() a record was stamped with
  lastCall,       \* the last public call: its arguments and its outcome
  undone,         \* ids for which undo has returned true
  chain           \* the organize -> undo -> redo sequence in progress

vars == <<files, dirs, options, stats, runs, history, fileOperations, lastId, now,
          lastCall, undone, chain>>

\* the directory the instance organizes, and a directory that does not exist
Base == <<"/","d">>
Missing == <<"/","n","x">>

\* the files a directory tree may start with
Candidates ==
  { [path |-> <<"/","d","/","a",".","j","p","g">>, content |-> 1, size |-> 5000,
     mtime |-> [year |-> 2024, month |-> 0]],
    [path |-> <<"/","d","/","s","/","a",".","j","p","g">>, content |-> 2, size |-> 1,
     mtime |-> [year |-> 2023, month |-> 11]],
    [path |-> <<"/","d","/","i","m","a","g","e","s","/","a",".","j","p","g">>, content |-> 3, size |-> 20000,
     mtime |-> [year |-> 2024, month |-> 0]],
    [path |-> <<"/","d","/","B",".","P","D","F">>, content |-> 4, size |-> 1024 * 1024,
     mtime |-> [year |-> 2024, month |-> 0]],
    [path |-> <<"/","d","/",".","x">>, content |-> 5, size |-> 100 * 1024 * 1024,
     mtime |-> [year |-> 2023, month |-> 11]],
    [path |-> <<"/","d","/","i","m","a","g","e","s">>, content |-> 6, size |-> 20000,
     mtime |-> [year |-> 2024, month |-> 0]] }

\* no file of the tree lies where another file needs a directory
IsTree(T) ==
  /\ \A f, g \in T : f.path \notin Ancestry(DirOf(g.path))
  /\ \A f, g \in T : f.path = g.path => f = g

Trees == {T \in SUBSET Candidates : Cardinality(T) <= MaxFiles /\ IsTree(T)}

Methods == {"extension", "name", "date", "size"}

\* maxSize when it is left out, or Infinity as the command line passes it:
\* truthy, and no size is above it
Infinity == 2147483647

\* OrganizationOptions; minSize 0 and maxSize Infinity when not given: every
\* method with and without recursion and dry run, and the filters under the
\* extension method, --max-size 0 among them
OptionSets ==
  { [method |-> m, ignoreDotfiles |-> FALSE, recursive |-> r, dryRun |-> d,
     minSize |-> 0, maxSize |-> Infinity] :
      m \in Methods, r \in BOOLEAN, d \in BOOLEAN }
  \cup
  { [method |-> "extension", ignoreDotfiles |-> i, recursive |-> FALSE, dryRun |-> d,
     minSize |-> range[1], maxSize |-> range[2]] :
      i \in BOOLEAN, d \in BOOLEAN,
      range \in {<<0, Infinity>>, <<1000, 10000>>, <<0, 0>>} }

NoStats == [filesProcessed |-> 0, bytesMoved |-> 0, errors |-> <<>>, skipped |-> <<>>,
            created |-> {}]

NoCall == [op |-> "new", ret |-> FALSE, threw |-> FALSE, target |-> 0,
           count |-> 0, mappings |-> <<>>, moved |-> <<>>, logged |-> FALSE]

NoChain == [stage |-> 0, id |-> 0, pre |-> <<>>, post |-> <<>>]

\* a new instance with one of the given option objects, on one of the given trees
Start(trees, optionSets) ==
  /\ \E T \in trees :
       /\ files = [p \in {f.path : f \in T} |->
                     LET f == CHOOSE g \in T : g.path = p
                     IN  [content |-> f.content, size |-> f.size, mtime |-> f.mtime]]
       /\ dirs = {Base} \cup UNION {Ancestry(DirOf(f.path)) : f \in T}
  /\ options \in optionSets
  /\ stats = NoStats
  /\ runs = 0
  /\ history = <<>>
  /\ fileOperations = <<>>
  /\ lastId = 0
  /\ now = 0
  /\ lastCall = NoCall
  /\ undone = {}
  /\ chain = NoChain

Init == Start(Trees, OptionSets)

(***************************************************************************)
(* NeatFolder (the organize engine).                                       *)
(***************************************************************************)
\* the orders in which a scan may deliver a set of paths
Orders(S) ==
  {s \in [1..Cardinality(S) -> S] : \A i, j \in 1..Cardinality(S) : s[i] = s[j] => i = j}

\* a path below the scanned directory that the glob skips when dot is false:
\* one of its components starts with "."
IsHidden(p, path) ==
  LET parts == Split(SubSeq(p, Len(path) + 2, Len(p)), "/")
  IN  \E i \in 1..Len(parts) : StartsWith(parts[i], <<".">>)

\* NeatFolder.findFiles: the files glob.scan delivers, all levels when recursive
findFiles(fs, path) ==
  {p \in DOMAIN fs.files :
     /\ IF options.recursive THEN StartsWith(p, path \o <<"/">>) ELSE DirOf(p) = path
     /\ options.ignoreDotfiles => ~IsHidden(p, path)}

\* validateDirectory with the exit code of test -d ignored
validateDirectoryAlways(fs, path) == TRUE

\* NeatFolder.validateDirectory: test -d
validateDirectory(fs, path) == IsDirectory(fs, ResolvePath(path))

NoMapping == [sourcePath |-> <<>>, targetPath |-> <<>>, size |-> 0,
              modifiedTime |-> [year |-> 0, month |-> 0]]

\* processFile with a target that looks at the files counted so far
processFileCounting(filePath, basePath, st, fs) ==
  IF ~FileExists(fs, filePath) THEN [mapping |-> NoMapping, stats |-> st]
  ELSE
    LET file == fs.files[ResolvePath(filePath)]
        size == file.size
        fileName == FileNameOf(filePath)
    IN  IF options.minSize # 0 /\ size < options.minSize
        THEN [mapping |-> NoMapping,
              stats |-> [st EXCEPT !.skipped = Append(@, <<"Size too small", filePath>>)]]
        ELSE IF options.maxSize # 0 /\ size > options.maxSize
        THEN [mapping |-> NoMapping,
              stats |-> [st EXCEPT !.skipped = Append(@, <<"Size too large", filePath>>)]]
        ELSE IF options.ignoreDotfiles /\ StartsWith(fileName, <<".">>)
        THEN [mapping |-> NoMapping,
              stats |-> [st EXCEPT !.skipped = Append(@, <<"Dotfile ignored", filePath>>)]]
        ELSE
          LET modifiedTime == file.mtime
              targetDir == IF st.filesProcessed > 0 THEN <<"o","t","h","e","r","s">>
                           ELSE getTargetDirectory(options.method, fileName,
                                                   [size |-> size, mtime |-> modifiedTime])
              targetPath == basePath \o <<"/">> \o targetDir \o <<"/">> \o fileName
          IN  [mapping |-> [sourcePath |-> filePath, targetPath |-> targetPath,
                            size |-> size, modifiedTime |-> modifiedTime],
               stats |-> st]

\* NeatFolder.processFile: the mapping of a file (NoMapping for null) and the stats
\* (stat -f "%m" is the BSD stat the code is written for: it answers the mtime)
processFile(filePath, basePath, st, fs) ==
  IF ~FileExists(fs, filePath) THEN [mapping |-> NoMapping, stats |-> st]
  ELSE
    LET file == fs.files[ResolvePath(filePath)]
        size == file.size
        fileName == FileNameOf(filePath)
    IN  IF options.minSize # 0 /\ size < options.minSize
        THEN [mapping |-> NoMapping,
              stats |-> [st EXCEPT !.skipped = Append(@, <<"Size too small", filePath>>)]]
        ELSE IF options.maxSize # 0 /\ size > options.maxSize
        THEN [mapping |-> NoMapping,
              stats |-> [st EXCEPT !.skipped = Append(@, <<"Size too large", filePath>>)]]
        ELSE IF options.ignoreDotfiles /\ StartsWith(fileName, <<".">>)
        THEN [mapping |-> NoMapping,
              stats |-> [st EXCEPT !.skipped = Append(@, <<"Dotfile ignored", filePath>>)]]
        ELSE
          LET modifiedTime == file.mtime
              targetDir == getTargetDirectory(options.method, fileName,
                                              [size |-> size, mtime |-> modifiedTime])
              targetPath == basePath \o <<"/">> \o targetDir \o <<"/">> \o fileName
          IN  [mapping |-> [sourcePath |-> filePath, targetPath |-> targetPath,
                            size |-> size, modifiedTime |-> modifiedTime],
               stats |-> st]

\* NeatFolder.createFileMappings: [mappings, stats] after the files in order
RECURSIVE createFileMappings(_, _, _, _)
createFileMappings(fileList, basePath, st, fs) ==
  IF fileList = <<>> THEN [mappings |-> <<>>, stats |-> st]
  ELSE
    LET before == createFileMappings(SubSeq(fileList, 1, Len(fileList) - 1), basePath, st, fs)
        one == processFile(fileList[Len(fileList)], basePath, before.stats, fs)
    IN  [mappings |-> IF one.mapping = NoMapping THEN before.mappings
                      ELSE Append(before.mappings, one.mapping),
         stats |-> one.stats]

\* ensureDirectoryExists (file-utils): mkdir unless something is already there
ensureDirectoryExists(fs, directoryPath) ==
  IF ExistsSync(fs, directoryPath) THEN [ok |-> TRUE, fs |-> fs]
  ELSE MkdirP(fs, directoryPath)

\* the stats after a failed move
MoveFailed(st, mapping) ==
  [st EXCEPT !.errors = Append(@, <<"Failed to move", mapping.sourcePath>>)]

\* the stats after a move that went through
MoveCounted(st, mapping) ==
  [st EXCEPT !.filesProcessed = @ + 1, !.bytesMoved = @ + mapping.size]

\* this.stats.created.add(targetDir)
DirCreated(st, targetDir) == [st EXCEPT !.created = @ \cup {targetDir}]

\* NeatFolder.moveFile outside dry-run: the directory, the move, the created set
moveForReal(mapping, run, tracked) ==
  LET targetDir == DirOf(mapping.targetPath)
      made == ensureDirectoryExists(run.fs, targetDir)
      mv == Mv(made.fs, mapping.sourcePath, mapping.targetPath)
  IN  IF ~made.ok
      THEN [tracked EXCEPT !.stats = MoveFailed(@, mapping),
                           !.moved = Append(@, FALSE)]
      ELSE IF ~mv.ok
      THEN [tracked EXCEPT !.fs = made.fs,
                           !.stats = MoveFailed(@, mapping),
                           !.moved = Append(@, FALSE)]
      ELSE [tracked EXCEPT !.fs = mv.fs,
                           !.stats = MoveCounted(DirCreated(@, targetDir), mapping),
                           !.moved = Append(@, TRUE)]

\* moveFile with the dryRun option ignored
moveFileForReal(mapping, run) ==
  moveForReal(mapping, run,
              [run EXCEPT !.structure = AddToMap(@, DirOf(mapping.targetPath),
                                                 FileNameOf(mapping.targetPath))])

\* NeatFolder.moveFile on the state of a run
\*   run = [fs, stats, structure, moved]
moveFile(mapping, run) ==
  LET targetDir == DirOf(mapping.targetPath)
      fileName == FileNameOf(mapping.targetPath)
      tracked == [run EXCEPT !.structure = AddToMap(@, targetDir, fileName)]
  IN  IF options.dryRun
      THEN [tracked EXCEPT !.stats = MoveCounted(@, mapping),
                           !.moved = Append(@, TRUE)]
      ELSE moveForReal(mapping, run, tracked)

\* NeatFolder.processFileMappings: the mappings one after the other
RECURSIVE processFileMappings(_, _)
processFileMappings(mappings, run) ==
  IF mappings = <<>> THEN run
  ELSE moveFile(mappings[Len(mappings)],
                processFileMappings(SubSeq(mappings, 1, Len(mappings) - 1), run))

(***************************************************************************)
(* DatabaseLogger (the history store and undo/redo).                       *)
(***************************************************************************)
Range(s) == {s[i] : i \in 1..Len(s)}

\* JSON.stringify(fileMappings) then JSON.parse: the Date comes back as a string
JSONMapping(m) ==
  [sourcePath |-> m.sourcePath, targetPath |-> m.targetPath, size |-> m.size,
   modifiedTime |-> <<"ISO", m.modifiedTime>>]

JSONMappings(mappings) == [i \in 1..Len(mappings) |-> JSONMapping(mappings[i])]

\* the table emptied before the row goes in
insertAlone(h, row) == <<row>>

\* the statement run twice
insertTwice(h, row) == Append(Append(h, row), row)

\* insertStmt.run(...): one row more in organization_history
insert(h, row) == Append(h, row)

\* the row logOrganization inserts into organization_history
logOrganization(id, timestamp, directory, method, beforeStructure, afterStructure, fileMappings, st, duration) ==
  [id |-> id, timestamp |-> timestamp, directory |-> directory, method |-> method,
   filesProcessed |-> st.filesProcessed, bytesMoved |-> st.bytesMoved,
   duration |-> duration, beforeStructure |-> beforeStructure,
   afterStructure |-> afterStructure, fileMappings |-> JSONMappings(fileMappings),
   errors |-> st.errors, skipped |-> st.skipped, isReversed |-> FALSE,
   originalOperationId |-> 0]

\* logOrganization's loop stopped after the first mapping
logFileOperationsFirst(id, timestamp, fileMappings) ==
  [i \in 1..1 |->
     [operationId |-> id, sourcePath |-> fileMappings[i].sourcePath,
      targetPath |-> fileMappings[i].targetPath, size |-> fileMappings[i].size,
      modifiedTime |-> fileMappings[i].modifiedTime, operation |-> "move",
      executedAt |-> timestamp]]

\* the rows logOrganization inserts into file_operations
logFileOperations(id, timestamp, fileMappings) ==
  [i \in 1..Len(fileMappings) |->
     [operationId |-> id, sourcePath |-> fileMappings[i].sourcePath,
      targetPath |-> fileMappings[i].targetPath, size |-> fileMappings[i].size,
      modifiedTime |-> fileMappings[i].modifiedTime, operation |-> "move",
      executedAt |-> timestamp]]

\* logUndoOperation with the structures of the original kept in place
logUndoUnswapped(id, timestamp, originalOperation, filesProcessed) ==
  [id |-> id, timestamp |-> timestamp, directory |-> originalOperation.directory,
   method |-> originalOperation.method, filesProcessed |-> filesProcessed,
   bytesMoved |-> 0, duration |-> 0,
   beforeStructure |-> originalOperation.beforeStructure,
   afterStructure |-> originalOperation.afterStructure,
   fileMappings |-> originalOperation.fileMappings,
   errors |-> <<>>, skipped |-> <<>>, isReversed |-> TRUE,
   originalOperationId |-> originalOperation.id]

\* logUndoOperation with originalOperationId left NULL
logUndoUnlinked(id, timestamp, originalOperation, filesProcessed) ==
  [id |-> id, timestamp |-> timestamp, directory |-> originalOperation.directory,
   method |-> originalOperation.method, filesProcessed |-> filesProcessed,
   bytesMoved |-> 0, duration |-> 0,
   beforeStructure |-> originalOperation.afterStructure,
   afterStructure |-> originalOperation.beforeStructure,
   fileMappings |-> originalOperation.fileMappings,
   errors |-> <<>>, skipped |-> <<>>, isReversed |-> TRUE,
   originalOperationId |-> 0]

\* the row logUndoOperation inserts
logUndoOperation(id, timestamp, originalOperation, filesProcessed) ==
  [id |-> id, timestamp |-> timestamp, directory |-> originalOperation.directory,
   method |-> originalOperation.method, filesProcessed |-> filesProcessed,
   bytesMoved |-> 0, duration |-> 0,
   beforeStructure |-> originalOperation.afterStructure,
   afterStructure |-> originalOperation.beforeStructure,
   fileMappings |-> originalOperation.fileMappings,
   errors |-> <<>>, skipped |-> <<>>, isReversed |-> TRUE,
   originalOperationId |-> originalOperation.id]

\* the row logRedoOperation inserts: logUndoOperation on a copy of the original
logRedoOperation(id, timestamp, originalOperation, filesProcessed) ==
  logUndoOperation(id, timestamp,
                   [originalOperation EXCEPT !.isReversed = FALSE,
                                             !.filesProcessed = filesProcessed],
                   filesProcessed)

\* SELECT * FROM organization_history WHERE id = ?
getOperationById(h, id) == {r \in Range(h) : r.id = id}

\* ORDER BY timestamp DESC LIMIT 1 over a set of rows: a row no other row is newer than
Latest(rows) == {r \in rows : \A q \in rows : q.timestamp <= r.timestamp}

\* getLastOperation passing over the records a reversal references
getLastOperationUndoable(h) ==
  Latest({r \in Range(h) :
            ~r.isReversed /\ \A q \in Range(h) : q.isReversed => q.originalOperationId # r.id})

\* getLastOperation: WHERE isReversed = FALSE ORDER BY timestamp DESC LIMIT 1
getLastOperation(h) == Latest({r \in Range(h) : ~r.isReversed})

\* getLastUndoOperation: WHERE isReversed = TRUE ORDER BY timestamp DESC LIMIT 1
getLastUndoOperation(h) == Latest({r \in Range(h) : r.isReversed})

\* the pre-check finding nothing
existingUndoNone(h, id) == {}

\* SELECT id ... WHERE isReversed = TRUE AND originalOperationId = ?
existingUndo(h, id) == {r \in Range(h) : r.isReversed /\ r.originalOperationId = id}

\* one turn of the restore loop of undo on [fs, count]
undoMapping(mapping, acc) ==
  IF ~FileExists(acc.fs, mapping.targetPath) THEN acc
  ELSE
    LET sourceDir == DirOf(mapping.sourcePath)
        made == MkdirP(acc.fs, sourceDir)
        mv == Mv(made.fs, mapping.targetPath, mapping.sourcePath)
    IN  IF ~made.ok THEN acc
        ELSE IF ~mv.ok THEN [acc EXCEPT !.fs = made.fs]
        ELSE [fs |-> mv.fs, count |-> acc.count + 1]

\* the restore loop of undo without the reverse(): the mappings first to last
RECURSIVE undoMappingsForward(_, _)
undoMappingsForward(fileMappings, acc) ==
  IF fileMappings = <<>> THEN acc
  ELSE undoMappingsForward(SubSeq(fileMappings, 2, Len(fileMappings)),
                           undoMapping(fileMappings[1], acc))

\* the restore loop of undo: the mappings last to first
RECURSIVE undoMappings(_, _)
undoMappings(fileMappings, acc) ==
  IF fileMappings = <<>> THEN acc
  ELSE undoMappings(SubSeq(fileMappings, 1, Len(fileMappings) - 1),
                    undoMapping(fileMappings[Len(fileMappings)], acc))

\* one turn of the re-apply loop of redo on [fs, count]
redoMapping(mapping, acc) ==
  IF ~FileExists(acc.fs, mapping.sourcePath) THEN acc
  ELSE
    LET targetDir == DirOf(mapping.targetPath)
        made == MkdirP(acc.fs, targetDir)
        mv == Mv(made.fs, mapping.sourcePath, mapping.targetPath)
    IN  IF ~made.ok THEN acc
        ELSE IF ~mv.ok THEN [acc EXCEPT !.fs = made.fs]
        ELSE [fs |-> mv.fs, count |-> acc.count + 1]

\* the re-apply loop of redo: the mappings first to last
RECURSIVE redoMappings(_, _)
redoMappings(fileMappings, acc) ==
  IF fileMappings = <<>> THEN acc
  ELSE redoMappings(SubSeq(fileMappings, 2, Len(fileMappings)),
                    redoMapping(fileMappings[1], acc))

(***************************************************************************)
(* The public operations.  lastCall keeps the verdict of the last call     *)
(* and, when the call went through, what it did.                           *)
(***************************************************************************)
Refused(op) == [NoCall EXCEPT !.op = op]

\* NeatFolder.organize(directory); scan is the order the glob delivers the files in
organize(directory, scan) ==
  LET fs == [files |-> files, dirs |-> dirs]
      resolvedPath == directory
      allFiles == scan
      initialStructure == buildDirectoryStructure(allFiles, resolvedPath)
      made == createFileMappings(allFiles, resolvedPath, stats, fs)
      fileMappings == made.mappings
      run == processFileMappings(fileMappings,
                                 [fs |-> fs, stats |-> made.stats,
                                  structure |-> EmptyMap, moved |-> <<>>])
      \* Date.now() has moved on since the last record: the run spawns test -d and stat
      timestamp == now + 1
      duration == 1
      id == lastId + 1
  IN  /\ UNCHANGED <<options, undone>>
      /\ IF ~validateDirectory(fs, resolvedPath)
         THEN /\ lastCall' = [Refused("organize") EXCEPT !.threw = TRUE]
              /\ UNCHANGED <<files, dirs, stats, runs, history, fileOperations, lastId, now,
                             chain>>
         ELSE /\ runs < MaxRuns
              /\ runs' = runs + 1
              /\ IF Len(fileMappings) = 0
                 THEN /\ lastCall' = [Refused("organize") EXCEPT !.ret = TRUE]
                      /\ stats' = made.stats
                      /\ chain' = NoChain
                      /\ UNCHANGED <<files, dirs, history, fileOperations, lastId, now>>
                 ELSE /\ files' = run.fs.files
                      /\ dirs' = run.fs.dirs
                      /\ stats' = run.stats
                      /\ lastCall' = [op |-> "organize", ret |-> TRUE, threw |-> FALSE,
                                      target |-> IF options.dryRun THEN 0 ELSE id,
                                      count |-> Len(fileMappings),
                                      mappings |-> fileMappings, moved |-> run.moved,
                                      logged |-> ~options.dryRun]
                      /\ IF ~options.dryRun
                         THEN /\ lastId < MaxOps
                              /\ history' = insert(history,
                                   logOrganization(id, timestamp, resolvedPath,
                                                   options.method, initialStructure,
                                                   run.structure, fileMappings, run.stats,
                                                   duration))
                              /\ fileOperations' =
                                   fileOperations
                                     \o logFileOperations(id, timestamp, fileMappings)
                              /\ lastId' = id
                              /\ now' = timestamp
                              /\ chain' = [stage |-> 1, id |-> id, pre |-> files,
                                           post |-> run.fs.files]
                         ELSE /\ chain' = NoChain
                              /\ UNCHANGED <<history, fileOperations, lastId, now>>

Organize ==
  \E directory \in {Base, Missing} :
    \E scan \in Orders(findFiles([files |-> files, dirs |-> dirs], directory)) :
      organize(directory, scan)

\* undo resolving to the last operation whatever id it is given
undoTargetLast(operationId) == getLastOperation(history)

\* the record an undo call resolves to (a set: empty when there is none)
undoTarget(operationId) ==
  IF operationId # 0 THEN getOperationById(history, operationId)
  ELSE getLastOperation(history)

\* DatabaseLogger.undo(operationId), 0 for no id
undo(operationId) ==
  /\ UNCHANGED <<options, stats, runs, fileOperations>>
  /\ IF undoTarget(operationId) = {}
     THEN /\ lastCall' = Refused("undo")
          /\ UNCHANGED <<files, dirs, history, lastId, now, undone, chain>>
     ELSE \E targetOperation \in undoTarget(operationId) :
       IF targetOperation.isReversed \/ existingUndo(history, targetOperation.id) # {}
       THEN /\ lastCall' = [Refused("undo") EXCEPT !.target = targetOperation.id]
            /\ UNCHANGED <<files, dirs, history, lastId, now, undone, chain>>
       ELSE
         LET done == undoMappings(targetOperation.fileMappings,
                                  [fs |-> [files |-> files, dirs |-> dirs], count |-> 0])
             undoCount == done.count
         IN  /\ lastId < MaxOps
             /\ files' = done.fs.files
             /\ dirs' = done.fs.dirs
             /\ history' = insert(history,
                             logUndoOperation(lastId + 1, now + 1, targetOperation, undoCount))
             /\ lastId' = lastId + 1
             /\ now' = now + 1
             /\ undone' = undone \cup {targetOperation.id}
             /\ lastCall' = [Refused("undo") EXCEPT
                               !.ret = TRUE, !.target = targetOperation.id,
                               !.count = undoCount]
             /\ chain' = IF chain.stage = 1 /\ targetOperation.id = chain.id
                         THEN [chain EXCEPT !.stage = 2] ELSE NoChain

Undo == \E operationId \in 0..(lastId + 1) : undo(operationId)

\* redo resolving to the last reversal whatever id it is given
redoTargetLast(undoOperationId) == getLastUndoOperation(history)

\* the record a redo call resolves to (a set: empty when there is none)
redoTarget(undoOperationId) ==
  IF undoOperationId # 0 THEN getOperationById(history, undoOperationId)
  ELSE getLastUndoOperation(history)

\* DatabaseLogger.redo(undoOperationId), 0 for no id
redo(undoOperationId) ==
  /\ UNCHANGED <<options, stats, runs, fileOperations, undone>>
  /\ IF redoTarget(undoOperationId) = {}
     THEN /\ lastCall' = Refused("redo")
          /\ UNCHANGED <<files, dirs, history, lastId, now, chain>>
     ELSE \E undoOperation \in redoTarget(undoOperationId) :
       IF \/ ~undoOperation.isReversed
          \/ undoOperation.originalOperationId = 0
          \/ getOperationById(history, undoOperation.originalOperationId) = {}
       THEN /\ lastCall' = [Refused("redo") EXCEPT !.target = undoOperation.id]
            /\ UNCHANGED <<files, dirs, history, lastId, now, chain>>
       ELSE
         LET originalOperation ==
               CHOOSE r \in getOperationById(history, undoOperation.originalOperationId) : TRUE
             done == redoMappings(originalOperation.fileMappings,
                                  [fs |-> [files |-> files, dirs |-> dirs], count |-> 0])
             redoCount == done.count
         IN  /\ lastId < MaxOps
             /\ files' = done.fs.files
             /\ dirs' = done.fs.dirs
             /\ history' = insert(history,
                             logRedoOperation(lastId + 1, now + 1, originalOperation, redoCount))
             /\ lastId' = lastId + 1
             /\ now' = now + 1
             /\ lastCall' = [Refused("redo") EXCEPT
                               !.ret = TRUE, !.target = undoOperation.id,
                               !.count = redoCount]
             /\ chain' = IF chain.stage = 2 /\ originalOperation.id = chain.id
                         THEN [chain EXCEPT !.stage = 3] ELSE NoChain

Redo == \E undoOperationId \in 0..(lastId + 1) : redo(undoOperationId)

\* clearHistory without its first DELETE: the per-file rows stay
ClearHistoryRecordsOnly ==
  /\ history' = <<>>
  /\ lastCall' = [Refused("clearHistory") EXCEPT !.ret = TRUE]
  /\ chain' = NoChain
  /\ UNCHANGED <<files, dirs, options, stats, runs, lastId, now, undone, fileOperations>>

\* DatabaseLogger.clearHistory: both tables emptied; AUTOINCREMENT keeps counting
ClearHistory ==
  /\ history' = <<>>
  /\ fileOperations' = <<>>
  /\ lastCall' = [Refused("clearHistory") EXCEPT !.ret = TRUE]
  /\ chain' = NoChain
  /\ UNCHANGED <<files, dirs, options, stats, runs, lastId, now, undone>>

Next == Organize \/ Undo \/ Redo \/ ClearHistory

Spec == Init /\ [][Next]_vars

(***************************************************************************)
(* The queries of DatabaseLogger, and the store seen with them: the same   *)
(* operations, on two directories, with the queries as steps.              *)
(***************************************************************************)
\* ORDER BY timestamp DESC over a set of rows
RECURSIVE OrderByTimestampDesc(_)
OrderByTimestampDesc(rows) ==
  IF rows = {} THEN <<>>
  ELSE LET r == CHOOSE q \in Latest(rows) : TRUE
       IN  <<r>> \o OrderByTimestampDesc(rows \ {r})

\* LIMIT n: the first n rows, all of them when n is negative (SQLite)
Limit(rows, n) ==
  IF n < 0 \/ n >= Len(rows) THEN rows ELSE SubSeq(rows, 1, n)

\* getHistory with the directory clause never added
getHistoryUnfiltered(h, limit, directory) == Limit(OrderByTimestampDesc(Range(h)), limit)

\* DatabaseLogger.getHistory(limit, directory); <<>> for no directory (or "")
getHistory(h, limit, directory) ==
  Limit(OrderByTimestampDesc({r \in Range(h) : directory = <<>> \/ r.directory = directory}),
        limit)

\* SUM(column) over a set of rows, by id; 0 for NULL || 0
RECURSIVE Sum(_, _)
Sum(rows, column) ==
  IF rows = {} THEN 0
  ELSE LET r == CHOOSE q \in rows : TRUE
       IN  r[column] + Sum(rows \ {r}, column)

\* getStats with the WHERE isReversed = FALSE of the two sums dropped
getStatsAll(h) ==
  [totalOperations |-> Cardinality(Range(h)),
   totalFilesProcessed |-> Sum(Range(h), "filesProcessed"),
   totalBytesProcessed |-> Sum(Range(h), "bytesMoved"),
   lastOperation |-> 0, availableUndos |-> 0, availableRedos |-> 0]

\* getStats counting every record that is not a reversal as undoable
getStatsUndoAll(h) ==
  [totalOperations |-> Cardinality(Range(h)),
   totalFilesProcessed |-> Sum({r \in Range(h) : ~r.isReversed}, "filesProcessed"),
   totalBytesProcessed |-> Sum({r \in Range(h) : ~r.isReversed}, "bytesMoved"),
   lastOperation |-> IF h = <<>> THEN 0
                     ELSE (CHOOSE r \in Latest(Range(h)) : TRUE).timestamp,
   availableUndos |-> Cardinality({r \in Range(h) : ~r.isReversed}),
   availableRedos |->
     Cardinality({r \in Range(h) : r.isReversed /\ r.originalOperationId # 0})]

\* DatabaseLogger.getStats; lastOperation 0 for null
getStats(h) ==
  [totalOperations |-> Cardinality(Range(h)),
   totalFilesProcessed |-> Sum({r \in Range(h) : ~r.isReversed}, "filesProcessed"),
   totalBytesProcessed |-> Sum({r \in Range(h) : ~r.isReversed}, "bytesMoved"),
   lastOperation |-> IF h = <<>> THEN 0
                     ELSE (CHOOSE r \in Latest(Range(h)) : TRUE).timestamp,
   availableUndos |->
     Cardinality({r \in Range(h) :
                    /\ ~r.isReversed
                    /\ r.id \notin {q.originalOperationId :
                                      q \in {u \in Range(h) :
                                               u.isReversed /\ u.originalOperationId # 0}}}),
   availableRedos |->
     Cardinality({r \in Range(h) : r.isReversed /\ r.originalOperationId # 0})]

\* a directory below the first, and where exportHistory is told to write
Sub == <<"/","d","/","s">>
ExportPath == <<"/","h",".","j","s","o","n">>
Limits == {-1, 0, 1, 2, 10}

\* getHistory as a step: it reads, and lastCall keeps the number of rows
GetHistory ==
  \E limit \in Limits, directory \in {<<>>, Base, Sub} :
    /\ lastCall' = [Refused("getHistory") EXCEPT
                      !.ret = TRUE, !.count = Len(getHistory(history, limit, directory))]
    /\ UNCHANGED <<files, dirs, options, stats, runs, history, fileOperations, lastId, now,
                   undone, chain>>

\* getStats as a step
GetStats ==
  /\ lastCall' = [Refused("getStats") EXCEPT
                    !.ret = TRUE, !.count = getStats(history).totalOperations]
  /\ UNCHANGED <<files, dirs, options, stats, runs, history, fileOperations, lastId, now,
                 undone, chain>>

\* DatabaseLogger.exportHistory(filePath): the newest 1000 rows written to the file
ExportHistory ==
  LET exported == getHistory(history, 1000, <<>>)
  IN  /\ files' = [p \in DOMAIN files \cup {ExportPath} |->
                     IF p = ExportPath
                     THEN [content |-> [i \in 1..Len(exported) |-> exported[i].id],
                           size |-> Len(exported), mtime |-> [year |-> 2024, month |-> 0]]
                     ELSE files[p]]
      /\ lastCall' = [Refused("exportHistory") EXCEPT !.ret = TRUE, !.count = Len(exported)]
      /\ UNCHANGED <<dirs, options, stats, runs, history, fileOperations, lastId, now,
                     undone, chain>>

\* organize on either directory
OrganizeEither ==
  \E directory \in {Base, Sub, Missing} :
    \E scan \in Orders(findFiles([files |-> files, dirs |-> dirs], directory)) :
      organize(directory, scan)

\* the engines the store is watched under: by extension, not a dry run
StoreOptions == {o \in OptionSets : o.method = "extension" /\ ~o.dryRun /\ o.maxSize = Infinity
                                     /\ ~o.ignoreDotfiles}

\* and the trees it is watched on: a.jpg at the top, below it, and already sorted
StorePaths == {<<"/","d","/","a",".","j","p","g">>, <<"/","d","/","s","/","a",".","j","p","g">>, <<"/","d","/","i","m","a","g","e","s","/","a",".","j","p","g">>}

InitStore == Init /\ options \in StoreOptions /\ DOMAIN files \subseteq StorePaths

NextStore ==
  OrganizeEither \/ Undo \/ Redo \/ ClearHistory \/ GetHistory \/ GetStats \/ ExportHistory

SpecStore == InitStore /\ [][NextStore]_vars

(***************************************************************************)
(* The engine on a tree two levels deep, with recursion and maxDepth 1.    *)
(***************************************************************************)
\* a file one level below the organized directory and one two levels below
DeepCandidates ==
  { [path |-> <<"/","d","/","s","/","a",".","j","p","g">>, content |-> 2, size |-> 1,
     mtime |-> [year |-> 2023, month |-> 11]],
    [path |-> <<"/","d","/","s","/","t","/","b",".","j","p","g">>, content |-> 7, size |-> 5000,
     mtime |-> [year |-> 2024, month |-> 0]] }

\* OrganizationOptions with recursive set and maxDepth given
DeepOptions ==
  { [method |-> m, ignoreDotfiles |-> FALSE, recursive |-> TRUE, dryRun |-> d,
     minSize |-> 0, maxSize |-> Infinity, maxDepth |-> 1] :
      m \in Methods, d \in BOOLEAN }

\* the directory levels between the organized directory and a file
RECURSIVE Slashes(_)
Slashes(s) == IF s = <<>> THEN 0 ELSE (IF s[1] = "/" THEN 1 ELSE 0) + Slashes(Tail(s))

Depth(path, base) == Slashes(path) - Slashes(base) - 1

InitDeep == Start(SUBSET DeepCandidates, DeepOptions)

SpecDeep == InitDeep /\ [][Next]_vars

(***************************************************************************)
(* The engine built with a method the command line would have rejected.    *)
(***************************************************************************)
\* OrganizationOptions whose method is none of GroupingMethod
InvalidMethodOptions ==
  { [method |-> "type", ignoreDotfiles |-> FALSE, recursive |-> r, dryRun |-> d,
     minSize |-> 0, maxSize |-> Infinity] :
      r \in BOOLEAN, d \in BOOLEAN }

InitInvalid == Start(Trees, InvalidMethodOptions)

SpecInvalid == InitInvalid /\ [][Next]_vars

(***************************************************************************)
(* getTargetDirectory called on its own, on names, sizes and times of      *)
(* every kind.                                                             *)
(***************************************************************************)
\* file names: every category, upper case, several dots, no dot, a leading
\* dot, and first characters that are digits or neither letters nor digits
FileNames ==
  { <<"a",".","j","p","g">>, <<"I","M","A","G","E",".","J","P","G">>, <<"D","o","c",".","P","d","f">>, <<"c",".","m","p","3">>, <<"d",".","m","p","4">>, <<"e",".","t","a","r",".","g","z">>,
    <<"f",".","j","s">>, <<"g",".","e","x","e">>, <<"h",".","w","o","f","f","2">>, <<"i",".","x","y","z">>, <<"j","p","g">>, <<".","p","n","g">>, <<"k",".","j","p","g",".","t","x","t">>,
    <<"l",".">>, <<"1",".","m","d">>, <<"_","x",".","t","t","f">>, <<"-",".","7","z">>, <<"Z">> }

\* sizes around the two breakpoints
Sizes == {0, 1, 1048575, 1048576, 1048577, 104857599, 104857600, 104857601}

\* modification times: a January and a December
Times == {[year |-> 2024, month |-> 0], [year |-> 2023, month |-> 11]}

\* OrganizationOptions, one per method
TargetOptions ==
  { [method |-> m, ignoreDotfiles |-> FALSE, recursive |-> FALSE, dryRun |-> FALSE,
     minSize |-> 0, maxSize |-> Infinity] : m \in Methods }

\* NeatFolder.getTargetDirectory(file, stats) under the method of the instance
GetTargetDirectory ==
  /\ \E file \in FileNames, size \in Sizes, mtime \in Times :
       lastCall' = [op |-> "getTargetDirectory", file |-> file,
                    stats |-> [size |-> size, mtime |-> mtime],
                    ret |-> getTargetDirectory(options.method, file,
                                               [size |-> size, mtime |-> mtime])]
  /\ UNCHANGED <<files, dirs, options, stats, runs, history, fileOperations, lastId, now,
                 undone, chain>>

InitTarget == Start({{}}, TargetOptions)

NextTarget == GetTargetDirectory

SpecTarget == InitTarget /\ [][NextTarget]_vars

(***************************************************************************)
(* One organize run step by step: the scan and the snapshot, the moves one *)
(* after the other, the write to the history; the process may die between  *)
(* two steps.                                                              *)
(***************************************************************************)
\* the moves processFileMappings has in flight at most: its loop awaits each one
BatchSize == 1

\* the loop issuing moves without awaiting them
NotAwaited(inFlight) == TRUE

\* await this.moveFile(...): the next move is issued when the one before settled
Awaited(inFlight) == inFlight < BatchSize

\* organize is inside processFileMappings
Moving == lastCall.op = "organize" /\ lastCall.phase = "moving"

\* organize up to processFileMappings: validateDirectory, findFiles,
\* buildDirectoryStructure, createFileMappings
BeginOrganize ==
  /\ ~Moving
  /\ runs < MaxRuns
  /\ validateDirectory([files |-> files, dirs |-> dirs], Base)
  /\ \E scan \in Orders(findFiles([files |-> files, dirs |-> dirs], Base)) :
       LET made == createFileMappings(scan, Base, stats, [files |-> files, dirs |-> dirs])
       IN  /\ lastCall' = [op |-> "organize",
                           phase |-> IF Len(made.mappings) = 0 THEN "returned" ELSE "moving",
                           initialStructure |-> buildDirectoryStructure(scan, Base),
                           scanned |-> files,
                           mappings |-> made.mappings, next |-> 1, inFlight |-> 0,
                           structure |-> EmptyMap, moved |-> <<>>,
                           records |-> Len(history)]
           /\ stats' = made.stats
  /\ runs' = runs + 1
  /\ UNCHANGED <<files, dirs, options, history, fileOperations, lastId, now, undone, chain>>

\* processFileMappings: the loop calls moveFile for the next mapping
StartMove ==
  /\ Moving
  /\ lastCall.next + lastCall.inFlight <= Len(lastCall.mappings)
  /\ Awaited(lastCall.inFlight)
  /\ lastCall' = [lastCall EXCEPT !.inFlight = @ + 1]
  /\ UNCHANGED <<files, dirs, options, stats, runs, history, fileOperations, lastId, now,
                 undone, chain>>

\* moveFile settles: the file is moved and counted, or the failure is recorded
SettleMove ==
  /\ Moving
  /\ lastCall.inFlight > 0
  /\ LET run == moveFile(lastCall.mappings[lastCall.next],
                         [fs |-> [files |-> files, dirs |-> dirs], stats |-> stats,
                          structure |-> lastCall.structure, moved |-> lastCall.moved])
     IN  /\ files' = run.fs.files
         /\ dirs' = run.fs.dirs
         /\ stats' = run.stats
         /\ lastCall' = [lastCall EXCEPT !.next = @ + 1, !.inFlight = @ - 1,
                                         !.structure = run.structure,
                                         !.moved = run.moved]
  /\ UNCHANGED <<options, runs, history, fileOperations, lastId, now, undone, chain>>

\* organize after processFileMappings: logOrganization unless it is a dry run
FinishOrganize ==
  /\ Moving
  /\ lastCall.next > Len(lastCall.mappings)
  /\ lastCall.inFlight = 0
  /\ lastCall' = [lastCall EXCEPT !.phase = "done"]
  /\ IF ~options.dryRun
     THEN /\ lastId < MaxOps
          /\ history' = insert(history,
                logOrganization(lastId + 1, now + 1, Base, options.method,
                                lastCall.initialStructure, lastCall.structure,
                                lastCall.mappings, stats, 1))
          /\ fileOperations' =
               fileOperations \o logFileOperations(lastId + 1, now + 1, lastCall.mappings)
          /\ lastId' = lastId + 1
          /\ now' = now + 1
     ELSE UNCHANGED <<history, fileOperations, lastId, now>>
  /\ UNCHANGED <<files, dirs, options, stats, runs, undone, chain>>

\* the process dies inside processFileMappings; the next instance starts with
\* empty stats
Interrupt ==
  /\ Moving
  /\ lastCall' = [lastCall EXCEPT !.phase = "interrupted"]
  /\ stats' = NoStats
  /\ UNCHANGED <<files, dirs, options, runs, history, fileOperations, lastId, now, undone,
                 chain>>

InitRun == Start(Trees, OptionSets)

NextRun == BeginOrganize \/ StartMove \/ SettleMove \/ FinishOrganize \/ Interrupt

SpecRun == InitRun /\ [][NextRun]_vars

(***************************************************************************)
(* Two undo(id) calls on one DatabaseLogger, the second started without    *)
(* awaiting the first: each runs from one await to the next, and between   *)
(* two awaits the other may run.                                           *)
(***************************************************************************)
\* the two calls, and the id both are given
UndoCalls == {1, 2}
RaceId == 1

\* a call not made yet
NoFrame == [pc |-> "idle", i |-> 0, count |-> 0, ret |-> FALSE]

\* where each call stands
Frames == IF lastCall.op = "undo twice" THEN lastCall.frames ELSE [c \in UndoCalls |-> NoFrame]

\* the record both calls resolved to
RaceTarget == CHOOSE r \in getOperationById(history, RaceId) : TRUE

\* the mapping a call is at: fileMappings.reverse() read from its front
RaceMapping(c) == RaceTarget.fileMappings[Frames[c].i]

\* a call goes on after the mapping it was at: to the next mapping, or out of
\* the loop to logUndoOperation and return true
Proceed(c, fs, count) ==
  /\ files' = fs.files
  /\ dirs' = fs.dirs
  /\ IF Frames[c].i > 1
     THEN /\ lastCall' = [op |-> "undo twice",
                          frames |-> [Frames EXCEPT ![c] = [pc |-> "exists", i |-> @.i - 1,
                                                            count |-> count, ret |-> FALSE]]]
          /\ UNCHANGED <<history, lastId, now>>
     ELSE /\ lastId < MaxOps
          /\ history' = insert(history, logUndoOperation(lastId + 1, now + 1, RaceTarget, count))
          /\ lastId' = lastId + 1
          /\ now' = now + 1
          /\ lastCall' = [op |-> "undo twice",
                          frames |-> [Frames EXCEPT ![c] = [pc |-> "done", i |-> 0,
                                                            count |-> count, ret |-> TRUE]]]
  /\ UNCHANGED <<options, stats, runs, fileOperations, undone, chain>>

\* undo(id) up to its first await: the lookup and the two guards
CallUndo ==
  \E c \in UndoCalls :
    /\ Frames[c].pc = "idle"
    /\ lastCall' =
         [op |-> "undo twice",
          frames |->
            [Frames EXCEPT ![c] =
               IF \/ undoTarget(RaceId) = {}
                  \/ RaceTarget.isReversed
                  \/ existingUndo(history, RaceTarget.id) # {}
               THEN [pc |-> "done", i |-> 0, count |-> 0, ret |-> FALSE]
               ELSE [pc |-> "exists", i |-> Len(RaceTarget.fileMappings), count |-> 0,
                     ret |-> FALSE]]]
    /\ UNCHANGED <<files, dirs, options, stats, runs, history, fileOperations, lastId, now,
                   undone, chain>>

\* await Bun.file(mapping.targetPath).exists() resolves
ExistsStep ==
  \E c \in UndoCalls :
    /\ Frames[c].pc = "exists"
    /\ IF FileExists([files |-> files, dirs |-> dirs], RaceMapping(c).targetPath)
       THEN /\ lastCall' = [op |-> "undo twice",
                            frames |-> [Frames EXCEPT ![c].pc = "mkdir"]]
            /\ UNCHANGED <<files, dirs, options, stats, runs, history, fileOperations,
                           lastId, now, undone, chain>>
       ELSE Proceed(c, [files |-> files, dirs |-> dirs], Frames[c].count)

\* await mkdir -p sourceDir resolves, or throws into the catch of the loop
MkdirStep ==
  \E c \in UndoCalls :
    /\ Frames[c].pc = "mkdir"
    /\ LET made == MkdirP([files |-> files, dirs |-> dirs], DirOf(RaceMapping(c).sourcePath))
       IN  IF made.ok
           THEN /\ dirs' = made.fs.dirs
                /\ files' = made.fs.files
                /\ lastCall' = [op |-> "undo twice",
                                frames |-> [Frames EXCEPT ![c].pc = "mv"]]
                /\ UNCHANGED <<options, stats, runs, history, fileOperations, lastId, now,
                               undone, chain>>
           ELSE Proceed(c, [files |-> files, dirs |-> dirs], Frames[c].count)

\* await mv targetPath sourcePath resolves, or throws into the catch of the loop
MvStep ==
  \E c \in UndoCalls :
    /\ Frames[c].pc = "mv"
    /\ LET mv == Mv([files |-> files, dirs |-> dirs], RaceMapping(c).targetPath,
                    RaceMapping(c).sourcePath)
       IN  IF mv.ok THEN Proceed(c, mv.fs, Frames[c].count + 1)
           ELSE Proceed(c, [files |-> files, dirs |-> dirs], Frames[c].count)

\* organize, before either call is made
OrganizeBefore == lastCall.op # "undo twice" /\ Organize

\* non-dry runs, one option object per method
RaceOptions == {o \in OptionSets : ~o.dryRun /\ o.recursive /\ o.maxSize = Infinity}

InitRace == Start(Trees, RaceOptions)

NextRace == OrganizeBefore \/ CallUndo \/ ExistsStep \/ MkdirStep \/ MvStep

SpecRace == InitRace /\ [][NextRace]_vars

(***************************************************************************)
(* DatabaseLogger.logOrganization called on its own, with file mappings    *)
(* built by processFile or read back from a history record.                *)
(***************************************************************************)
\* the mappings a caller hands over: fromJSON tells one that went through
\* JSON.parse, whose modifiedTime is a string and has no getTime()
LogMappings ==
  { [mapping |-> [sourcePath |-> c.path,
                  targetPath |-> Base \o <<"/","i","m","a","g","e","s","/">> \o FileNameOf(c.path),
                  size |-> c.size, modifiedTime |-> c.mtime],
     fromJSON |-> j] :
      c \in {d \in Candidates : d.content \in {1, 2}}, j \in BOOLEAN }

LogInputs == {<<a>> : a \in LogMappings} \cup {<<a, b>> : a, b \in LogMappings}

\* the mappings fileOpStmt.run() is reached for: the loop ends where
\* mapping.modifiedTime.getTime() throws a TypeError
RECURSIVE RowsWritten(_)
RowsWritten(input) ==
  IF input = <<>> \/ Head(input).fromJSON THEN <<>>
  ELSE <<Head(input).mapping>> \o RowsWritten(Tail(input))

\* logOrganization(directory, method, before, after, fileMappings, stats, duration)
LogOrganization ==
  \E input \in LogInputs :
    LET id == lastId + 1
        timestamp == now + 1
        fileMappings == [i \in 1..Len(input) |-> input[i].mapping]
        written == RowsWritten(input)
    IN  /\ lastId < MaxOps
        /\ history' = insert(history,
                             logOrganization(id, timestamp, Base, options.method, EmptyMap,
                                             EmptyMap, fileMappings, NoStats, 1))
        /\ fileOperations' = fileOperations \o logFileOperations(id, timestamp, written)
        /\ lastId' = id
        /\ now' = timestamp
        /\ lastCall' = [op |-> "logOrganization", ret |-> Len(written) = Len(input),
                        threw |-> Len(written) < Len(input), target |-> id,
                        count |-> Len(input), mappings |-> fileMappings, moved |-> <<>>,
                        logged |-> TRUE]
        /\ UNCHANGED <<files, dirs, options, stats, runs, undone, chain>>

InitLog == Start({{}}, TargetOptions)

NextLog == LogOrganization

SpecLog == InitLog /\ [][NextLog]_vars

(***************************************************************************)
(* NeatFolder.processFile called on enumerated paths one at a time; a path *)
(* of no file of the tree is a file that vanished after the enumeration.   *)
(***************************************************************************)
\* the paths findFiles may have delivered before the tree changed
Enumerated == {c.path : c \in Candidates}

\* processFile(filePath, basePath)
ProcessFile ==
  \E filePath \in Enumerated :
    LET one == processFile(filePath, Base, stats, [files |-> files, dirs |-> dirs])
    IN  /\ Len(stats.skipped) < MaxRuns
        /\ stats' = one.stats
        /\ lastCall' = [op |-> "processFile", filePath |-> filePath,
                        ret |-> one.mapping,
                        skipped |-> Len(one.stats.skipped) - Len(stats.skipped),
                        errors |-> Len(one.stats.errors) - Len(stats.errors)]
        /\ UNCHANGED <<files, dirs, options, runs, history, fileOperations, lastId, now,
                       undone, chain>>

InitProcess == Start(Trees, OptionSets)

NextProcess == ProcessFile

SpecProcess == InitProcess /\ [][NextProcess]_vars

(***************************************************************************)
(* The command line's organize flow (main): the preview by an instance of  *)
(* its own, the decision from the flags and the answer to the prompt, the  *)
(* real run.  In this specification options holds the options of the       *)
(* instance at work together with values["dry-run"] and                    *)
(* values["no-dry-run"] of the command line.                               *)
(***************************************************************************)
\* previewOptions for every command line: the options with dryRun true
CliOptions ==
  { [method |-> m, ignoreDotfiles |-> FALSE, recursive |-> r, dryRun |-> TRUE,
     minSize |-> 0, maxSize |-> Infinity, dryRunFlag |-> d, noDryRunFlag |-> n] :
      m \in Methods, r \in BOOLEAN, d \in BOOLEAN, n \in BOOLEAN }

\* what the user may type at the prompt
Answers == { <<"y">>, <<"Y">>, <<"y","e","s">>, <<"Y","e","s"," ">>, <<" ","y">>, <<"n">>, <<"n","o">>, <<"y","y">>, <<>> }

\* String.prototype.trim on the blanks of an answer
RECURSIVE Trim(_)
Trim(s) ==
  IF s = <<>> THEN s
  ELSE IF Head(s) = " " THEN Trim(Tail(s))
  ELSE IF s[Len(s)] = " " THEN Trim(SubSeq(s, 1, Len(s) - 1))
  ELSE s

\* the prompt taking everything but an explicit n for a yes
askForConfirmationUnlessNo(answer) == ToLowerCase(Trim(answer)) # <<"n">>

\* askForConfirmation: what the promise resolves to for an answer
askForConfirmation(answer) ==
  LET normalizedAnswer == Trim(ToLowerCase(answer))
  IN  normalizedAnswer = <<"y">> \/ normalizedAnswer = <<"y","e","s">>

\* parseArguments: dryRun from the two flags
CmdDryRun == IF options.noDryRunFlag THEN FALSE ELSE options.dryRunFlag

\* main: previewOrganizer.organize(cmdOptions.directory)
Preview ==
  /\ lastCall.op = "new"
  /\ Organize

\* main after the preview: return on --dry-run, go on on --no-dry-run, ask otherwise
Decide ==
  /\ lastCall.op = "organize"
  /\ ~lastCall.threw
  /\ options.dryRun
  /\ \E answer \in Answers :
       LET asked == ~CmdDryRun /\ ~options.noDryRunFlag
           proceed == /\ ~CmdDryRun
                      /\ options.noDryRunFlag \/ askForConfirmation(answer)
       IN  /\ ~asked => answer = <<>>
           /\ lastCall' = [op |-> "main", phase |-> IF proceed THEN "proceed" ELSE "done",
                           asked |-> asked, answer |-> answer]
           /\ options' = IF proceed THEN [options EXCEPT !.dryRun = CmdDryRun] ELSE options
           /\ stats' = IF proceed THEN NoStats ELSE stats
  /\ UNCHANGED <<files, dirs, runs, history, fileOperations, lastId, now, undone, chain>>

\* main: organizer.organize(cmdOptions.directory), the directory the preview accepted
Proceeding ==
  /\ lastCall.op = "main"
  /\ lastCall.phase = "proceed"
  /\ \E scan \in Orders(findFiles([files |-> files, dirs |-> dirs], Base)) :
       organize(Base, scan)

InitCli == Start(Trees, CliOptions)

NextCli == Preview \/ Decide \/ Proceeding

SpecCli == InitCli /\ [][NextCli]_vars
(***************************************************************************)
(* The properties.  A step is a call of the operation lastCall' names.     *)
(***************************************************************************)
\* the record of the history with this id
RecordOf(h, id) == CHOOSE r \in Range(h) : r.id = id

\* C1: once undo(id) has returned true, every later undo(id), and every undo()
\* that resolves to id, returns false, moves no file and appends no record
C1_SingleUndo ==
  [][\A id \in undone :
       (undo(id) \/ (undo(0) /\ \E r \in getLastOperation(history) : r.id = id))
         => /\ ~lastCall'.ret
            /\ UNCHANGED <<files, dirs, history, fileOperations>>]_vars

\* an undo of an operation that was undone before has been refused
C1_Witness ==
  /\ lastCall.op = "undo"
  /\ ~lastCall.ret
  /\ lastCall.target \in undone

\* C2: for each operation id at most one record with isReversed = true has
\* originalOperationId equal to that id
C2_OneReversalPerOriginal ==
  \A id \in 1..lastId :
    Cardinality({i \in 1..Len(history) :
                   history[i].isReversed /\ history[i].originalOperationId = id}) <= 1

\* C3: a non-dry-run organize followed by undo() makes undo return true, puts
\* every mapped file back at its sourcePath with its content, and the set of
\* file paths is the set before the organize
C3_UndoRestores ==
  [][(chain.stage = 1 /\ undo(0))
       => /\ lastCall'.ret
          /\ lastCall'.target = chain.id
          /\ \A m \in Range(RecordOf(history, chain.id).fileMappings) :
               /\ ResolvePath(m.sourcePath) \in DOMAIN files'
               /\ files'[ResolvePath(m.sourcePath)] = chain.pre[ResolvePath(m.sourcePath)]
          /\ DOMAIN files' = DOMAIN chain.pre]_vars

\* C4: organize, undo, redo leaves the files, paths and contents, as they were
\* right after the organize
C4_RoundTrip ==
  [][(chain.stage = 2 /\ redo(0))
       => /\ lastCall'.ret
          /\ files' = chain.post]_vars

\* C5: an organize call with dryRun = true leaves the files and directories as
\* they are and appends no history record
C5_DryRunPurity ==
  [][(options.dryRun /\ lastCall'.op = "organize")
       => UNCHANGED <<files, dirs, history, fileOperations>>]_vars

\* a dry run that had files to map has returned
C5_Witness ==
  /\ options.dryRun
  /\ lastCall.op = "organize"
  /\ lastCall.ret
  /\ lastCall.count > 0

\* C6: within one organize run two distinct source files are never assigned
\* the same targetPath
C6_CollisionFree ==
  lastCall.op = "organize" =>
    \A i, j \in 1..Len(lastCall.mappings) :
      lastCall.mappings[i].sourcePath # lastCall.mappings[j].sourcePath
        => lastCall.mappings[i].targetPath # lastCall.mappings[j].targetPath

\* the sum of the sizes of the mappings that were moved
RECURSIVE MovedBytes(_, _)
MovedBytes(mappings, moved) ==
  IF mappings = <<>> THEN 0
  ELSE MovedBytes(Tail(mappings), Tail(moved))
         + (IF Head(moved) THEN Head(mappings).size ELSE 0)

\* the number of failed moves of a run
Failed(moved) == Cardinality({i \in 1..Len(moved) : ~moved[i]})

\* C7: at the end of an organize run filesProcessed plus the number of failed
\* moves is the number of mappings, every failure is in stats.errors,
\* bytesMoved is the sum of the sizes of the moved mappings, and organize did
\* not throw
C7_EveryMappingCounted ==
  (lastCall.op = "organize" /\ lastCall.count > 0) =>
    /\ ~lastCall.threw
    /\ Len(lastCall.moved) = Len(lastCall.mappings)
    /\ stats.filesProcessed + Failed(lastCall.moved) = Len(lastCall.mappings)
    /\ Len(stats.errors) = Failed(lastCall.moved)
    /\ stats.bytesMoved = MovedBytes(lastCall.mappings, lastCall.moved)

\* C8: organize appends exactly one record if the run is not a dry run and has
\* a mapping, and none otherwise; an accepted undo or redo appends exactly one
\* record; a refused undo or redo appends none and raises no error
C8_OneRecordPerOperation ==
  [][/\ lastCall'.op = "organize" =>
          IF ~lastCall'.threw /\ ~options.dryRun /\ lastCall'.count > 0
          THEN /\ Len(history') = Len(history) + 1
               /\ SubSeq(history', 1, Len(history)) = history
               /\ ~history'[Len(history')].isReversed
          ELSE history' = history
     /\ (\E scan \in Orders(findFiles([files |-> files, dirs |-> dirs], Base)) :
           organize(Base, scan)) => (lastCall'.ret /\ ~lastCall'.threw)
     /\ (lastCall'.op \in {"undo", "redo"} /\ lastCall'.ret) =>
          /\ Len(history') = Len(history) + 1
          /\ SubSeq(history', 1, Len(history)) = history
     /\ (lastCall'.op \in {"undo", "redo"} /\ ~lastCall'.ret) =>
          /\ history' = history
          /\ ~lastCall'.threw]_vars

\* an organize, then an accepted undo, then an accepted redo: three records
C8_Witness ==
  /\ Len(history) = 3
  /\ lastCall.op = "redo"
  /\ lastCall.ret

C10_UndoRefusals ==
  [][\A operationId \in 0..(lastId + 1) :
       LET resolved ==
             IF operationId # 0
             THEN {i \in 1..Len(history) : history[i].id = operationId}
             ELSE {i \in 1..Len(history) :
                     /\ ~history[i].isReversed
                     /\ \A j \in 1..Len(history) :
                          ~history[j].isReversed
                            => history[j].timestamp <= history[i].timestamp}
       IN  (undo(operationId)
              /\ \/ resolved = {}
                 \/ \E i \in resolved : history[i].isReversed
                 \/ \E i \in resolved : \E j \in 1..Len(history) :
                      /\ history[j].isReversed
                      /\ history[j].originalOperationId = history[i].id)
             => /\ ~lastCall'.ret
                /\ ~lastCall'.threw
                /\ UNCHANGED <<files, dirs, history, fileOperations>>]_vars

\* an undo of a record that is itself a reversal has been refused
C10_Witness ==
  /\ lastCall.op = "undo"
  /\ ~lastCall.ret
  /\ lastCall.target # 0
  /\ \E r \in Range(history) : r.id = lastCall.target /\ r.isReversed

\* C11: redo returns false, moves no file and appends no record when no record
\* resolves (unknown id, or no reversal in the history and no id), when the
\* resolved record is no reversal or has no originalOperationId, or when the
\* original operation is not in the history
C11_RedoRefusals ==
  [][\A undoOperationId \in 0..(lastId + 1) :
       LET resolved ==
             IF undoOperationId # 0
             THEN {i \in 1..Len(history) : history[i].id = undoOperationId}
             ELSE {i \in 1..Len(history) :
                     /\ history[i].isReversed
                     /\ \A j \in 1..Len(history) :
                          history[j].isReversed
                            => history[j].timestamp <= history[i].timestamp}
       IN  (redo(undoOperationId)
              /\ \/ resolved = {}
                 \/ \E i \in resolved : ~history[i].isReversed
                 \/ \E i \in resolved : history[i].originalOperationId = 0
                 \/ \E i \in resolved : \A j \in 1..Len(history) :
                      history[j].id # history[i].originalOperationId)
             => /\ ~lastCall'.ret
                /\ ~lastCall'.threw
                /\ UNCHANGED <<files, dirs, history, fileOperations>>]_vars

\* a redo of a record that is no reversal has been refused
C11_Witness ==
  /\ lastCall.op = "redo"
  /\ ~lastCall.ret
  /\ lastCall.target # 0
  /\ \E r \in Range(history) : r.id = lastCall.target /\ ~r.isReversed

\* C12: the record a successful redo persists is not marked as a reversal
C12_RedoRecordForward ==
  [][(\E undoOperationId \in 0..(lastId + 1) : redo(undoOperationId)) /\ lastCall'.ret
       => /\ Len(history') = Len(history) + 1
          /\ ~history'[Len(history')].isReversed]_vars

\* C13: after organize, undo and redo of an operation a following undo of it
\* is accepted and moves its files back to their source paths
C13_Lifecycle ==
  [][(chain.stage = 3 /\ undo(chain.id))
       => /\ lastCall'.ret
          /\ \A m \in Range(RecordOf(history, chain.id).fileMappings) :
               ResolvePath(m.sourcePath) \in DOMAIN files']_vars

\* C14: in any sequence of organize, undo, redo, getHistory, getStats and
\* exportHistory calls no inserted record changes and none is removed, nor any
\* per-file move row; clearHistory removes all records and all rows
C14_AppendOnly ==
  [][IF lastCall'.op = "clearHistory"
     THEN history' = <<>> /\ fileOperations' = <<>>
     ELSE /\ Len(history') >= Len(history)
          /\ SubSeq(history', 1, Len(history)) = history
          /\ Len(fileOperations') >= Len(fileOperations)
          /\ SubSeq(fileOperations', 1, Len(fileOperations)) = fileOperations]_vars

\* three records are in the history and it has been exported and queried
C14_Witness ==
  /\ Len(history) = 3
  /\ ExportPath \in DOMAIN files
  /\ files[ExportPath].size = 3
  /\ lastCall.op = "getHistory"

\* C15: in every reachable state each record with isReversed = true has a
\* non-null originalOperationId that is the id of an existing record inserted
\* earlier with isReversed = false
C15_ReversalLinked ==
  \A i \in 1..Len(history) :
    history[i].isReversed =>
      /\ history[i].originalOperationId # 0
      /\ \E j \in 1..(i - 1) :
           /\ history[j].id = history[i].originalOperationId
           /\ ~history[j].isReversed

\* an undo record and a redo record both point to the first record
C15_Witness ==
  /\ Len(history) = 3
  /\ history[2].isReversed
  /\ history[3].isReversed
  /\ history[3].originalOperationId = history[1].id
  /\ lastCall.op = "redo"

\* the total of a column over the first n records, reversals left out
RECURSIVE ForwardTotal(_, _, _)
ForwardTotal(h, column, n) ==
  IF n = 0 THEN 0
  ELSE ForwardTotal(h, column, n - 1) + (IF h[n].isReversed THEN 0 ELSE h[n][column])

\* C16: after any sequence of organize, undo, redo and clearHistory calls
\* getStats().totalFilesProcessed is the sum of filesProcessed, and
\* totalBytesProcessed the sum of bytesMoved, over exactly the records with
\* isReversed = false (0 when there are none), and totalOperations is the
\* number of all records
C16_StatsAggregation ==
  /\ getStats(history).totalFilesProcessed = ForwardTotal(history, "filesProcessed", Len(history))
  /\ getStats(history).totalBytesProcessed = ForwardTotal(history, "bytesMoved", Len(history))
  /\ getStats(history).totalOperations = Len(history)
  /\ (\A i \in 1..Len(history) : history[i].isReversed) =>
       /\ getStats(history).totalFilesProcessed = 0
       /\ getStats(history).totalBytesProcessed = 0

\* getStats has run on a forward record and a reversal that both moved files
C16_Witness ==
  /\ lastCall.op = "getStats"
  /\ \E i, j \in 1..Len(history) :
       /\ ~history[i].isReversed /\ history[i].filesProcessed > 0
       /\ history[i].bytesMoved > 0
       /\ history[j].isReversed /\ history[j].filesProcessed > 0
  /\ lastCall.count = Len(history)

\* C17: each logOrganization call inserts exactly one history record
\* (isReversed = false, no originalOperationId) and exactly one per-file move
\* row for each FileMapping passed, and its id is unique and greater than every
\* id assigned earlier, in any sequence of log, undo, redo and clearHistory calls
C17_LogOrganization ==
  [][(lastCall'.op = "organize" /\ lastCall'.logged) =>
       LET r == history'[Len(history')]
           passed == lastCall'.mappings
       IN  /\ Len(history') = Len(history) + 1
           /\ SubSeq(history', 1, Len(history)) = history
           /\ ~r.isReversed
           /\ r.originalOperationId = 0
           /\ r.id = lastCall'.target
           /\ \A q \in Range(history) : q.id < r.id
           /\ \A id \in undone \cup {lastId} : id < r.id
           /\ \A i, j \in 1..Len(history') : history'[i].id = history'[j].id => i = j
           /\ Len(fileOperations') = Len(fileOperations) + Len(passed)
           /\ SubSeq(fileOperations', 1, Len(fileOperations)) = fileOperations
           /\ \A i \in 1..Len(passed) :
                LET row == fileOperations'[Len(fileOperations) + i]
                IN  /\ row.operationId = r.id
                    /\ row.sourcePath = passed[i].sourcePath
                    /\ row.targetPath = passed[i].targetPath
                    /\ row.size = passed[i].size]_vars

\* the history was cleared and the next run of two files logged under a new id
C17_Witness ==
  /\ lastCall.op = "organize"
  /\ lastCall.logged
  /\ Len(lastCall.mappings) = 2
  /\ Len(history) = 1
  /\ history[1].id = 2
  /\ Len(fileOperations) = 2

\* the records getHistory selects from
Matching(h, directory) == {r \in Range(h) : directory = <<>> \/ r.directory = directory}

\* newest first, of the directory asked for only, and none newer left out
NewestOfDirectory(h, directory, res) ==
  /\ \A i, j \in 1..Len(res) : i < j => res[i].timestamp > res[j].timestamp
  /\ Range(res) \subseteq Matching(h, directory)
  /\ \A r \in Matching(h, directory) \ Range(res) :
       \A i \in 1..Len(res) : res[i].timestamp > r.timestamp

\* C18 as stated: getHistory(limit, directory) returns at most limit records
\* (none for a limit below 0), newest first, and when a directory is given exactly the newest records whose
\* directory equals it and no record of any other directory
C18_AtMostLimit ==
  \A limit \in Limits, directory \in {<<>>, Base, Sub} :
    LET res == getHistory(history, limit, directory)
    IN  /\ Len(res) <= (IF limit < 0 THEN 0 ELSE limit)
        /\ NewestOfDirectory(history, directory, res)

\* C18: for a limit of 0 or more getHistory(limit, directory) returns the limit
\* newest records (all of them when there are fewer), newest first, and when a
\* directory is given only records of that directory; a negative limit returns
\* every such record
C18_GetHistory ==
  \A limit \in Limits, directory \in {<<>>, Base, Sub} :
    LET res == getHistory(history, limit, directory)
        n == Cardinality(Matching(history, directory))
    IN  /\ Len(res) = IF limit < 0 \/ limit > n THEN n ELSE limit
        /\ NewestOfDirectory(history, directory, res)

\* records of two directories are stored and a query has returned two of three
C18_Witness ==
  /\ Len(history) = 3
  /\ \E i, j \in 1..3 : history[i].directory = Base /\ history[j].directory = Sub
  /\ lastCall.op = "getHistory"
  /\ lastCall.count = 2
  /\ Len(getHistory(history, 10, Sub)) \in 1..2
  /\ Len(getHistory(history, -1, <<>>)) = 3

\* C19: clearHistory removes every history record and every per-file move row
\* and touches no file: afterwards getHistory is empty, getStats reports
\* totalOperations, totalFilesProcessed, availableUndos and availableRedos 0,
\* and undo() and redo() both return false
C19_ClearHistory ==
  [][/\ lastCall'.op = "clearHistory" =>
          /\ history' = <<>>
          /\ fileOperations' = <<>>
          /\ UNCHANGED <<files, dirs>>
          /\ \A limit \in Limits, directory \in {<<>>, Base, Sub} :
               getHistory(history', limit, directory) = <<>>
          /\ getStats(history').totalOperations = 0
          /\ getStats(history').totalFilesProcessed = 0
          /\ getStats(history').availableUndos = 0
          /\ getStats(history').availableRedos = 0
     /\ (lastCall.op = "clearHistory" /\ (undo(0) \/ redo(0))) =>
          /\ ~lastCall'.ret
          /\ UNCHANGED <<files, dirs, history, fileOperations>>]_vars

\* a history of three records was cleared and the undo() after it refused
C19_Witness ==
  /\ lastId = 3
  /\ history = <<>>
  /\ fileOperations = <<>>
  /\ lastCall.op = "undo"
  /\ ~lastCall.ret

InRange(size) == options.minSize <= size /\ size <= options.maxSize

\* the paths a list of stats entries names
Named(entries) == {entries[i][2] : i \in 1..Len(entries)}

\* C21: for every configured pair minSize <= maxSize and every enumerated file,
\* the file is moved only if minSize <= size <= maxSize; a file whose size is
\* below minSize or above maxSize stays in place and is recorded in
\* stats.skipped, not in stats.errors
C21_SizeFilter ==
  [][\A scan \in Orders(findFiles([files |-> files, dirs |-> dirs], Base)) :
       organize(Base, scan) =>
         /\ \A i \in 1..Len(lastCall'.mappings) : InRange(lastCall'.mappings[i].size)
         /\ \A i \in 1..Len(scan) :
              LET p == ResolvePath(scan[i])
              IN  ~InRange(files[p].size) =>
                    /\ p \in DOMAIN files'
                    /\ files'[p] = files[p]
                    /\ scan[i] \in Named(stats'.skipped)
                    /\ scan[i] \notin Named(stats'.errors)]_vars

\* C22: with recursive = true enumeration is bounded by maxDepth: no file
\* located more than maxDepth directory levels below the organized directory
\* is enumerated, mapped or moved
C22_MaxDepth ==
  [][\A scan \in Orders(findFiles([files |-> files, dirs |-> dirs], Base)) :
       (options.recursive /\ organize(Base, scan)) =>
         \A p \in DOMAIN files :
           Depth(p, Base) > options.maxDepth =>
             /\ \A i \in 1..Len(scan) : ResolvePath(scan[i]) # p
             /\ \A i \in 1..Len(lastCall'.mappings) :
                  ResolvePath(lastCall'.mappings[i].sourcePath) # p
             /\ p \in DOMAIN files'
             /\ files'[p] = files[p]]_vars

\* the files of the tree an organize of Base is about
InScope(p) == IF options.recursive THEN StartsWith(p, Base \o <<"/">>) ELSE DirOf(p) = Base

\* C23: when ignoreDotfiles is set, every file whose name starts with "." stays
\* at its path and is recorded in stats.skipped, and the run continues with
\* the other files; when it is not set, dotfiles are organized like any other
\* file
C23_Dotfiles ==
  [][\A scan \in Orders(findFiles([files |-> files, dirs |-> dirs], Base)) :
       organize(Base, scan) =>
         \A p \in DOMAIN files :
           (InScope(p) /\ StartsWith(FileNameOf(p), <<".">>)) =>
             IF options.ignoreDotfiles
             THEN /\ p \in DOMAIN files'
                  /\ files'[p] = files[p]
                  /\ p \in Named(stats'.skipped)
                  /\ \A q \in DOMAIN files :
                       (InScope(q) /\ ~StartsWith(FileNameOf(q), <<".">>)
                          /\ InRange(files[q].size)) =>
                         \E i \in 1..Len(lastCall'.mappings) :
                           ResolvePath(lastCall'.mappings[i].sourcePath) = q
             ELSE InRange(files[p].size) =>
                    \E i \in 1..Len(lastCall'.mappings) :
                      ResolvePath(lastCall'.mappings[i].sourcePath) = p]_vars

\* C24: organize configured with a method outside extension, name, date and
\* size fails with an error and moves no file, instead of organizing under
\* some default method
C24_InvalidMethod ==
  [][\A scan \in Orders(findFiles([files |-> files, dirs |-> dirs], Base)) :
       (options.method \notin Methods /\ organize(Base, scan)) =>
         /\ lastCall'.threw
         /\ UNCHANGED <<files, dirs, history, fileOperations>>]_vars

\* the rules of the table whose pattern matches the end of a file name, whatever
\* the case of its letters
MatchingRules(file) ==
  {i \in 1..Len(FILE_CATEGORIES) :
     \E e \in FILE_CATEGORIES[i].exts : EndsWith(ToLowerCase(file), <<".">> \o e)}

\* C25: for method = extension and every filename the target directory is the
\* category of the first rule of the ordered table whose pattern matches the
\* filename suffix, matched case-insensitively, and "others" when no rule
\* matches; the result is never empty
C25_ExtensionCategory ==
  (lastCall.op = "getTargetDirectory" /\ options.method = "extension") =>
    /\ lastCall.ret # <<>>
    /\ MatchingRules(lastCall.file) = {} => lastCall.ret = <<"o","t","h","e","r","s">>
    /\ \A i \in MatchingRules(lastCall.file) :
         (\A j \in MatchingRules(lastCall.file) : i <= j) =>
           lastCall.ret = FILE_CATEGORIES[i].category

\* an upper-case name has been put under images
C25_Witness ==
  /\ lastCall.op = "getTargetDirectory"
  /\ options.method = "extension"
  /\ lastCall.file = <<"I","M","A","G","E",".","J","P","G">>
  /\ lastCall.ret = <<"i","m","a","g","e","s">>

\* a letter or a digit
IsAlphanumeric(c) == c \in Range(UpperCase) \cup Range(LowerCase) \cup Range(Digits)

\* C26: for method = name and every filename the target directory is the
\* lower-cased first character of the filename when that character is
\* alphanumeric, and the "other" bucket when it is not
C26_NameBucket ==
  (lastCall.op = "getTargetDirectory" /\ options.method = "name") =>
    IF IsAlphanumeric(lastCall.file[1])
    THEN lastCall.ret = <<LowerChar(lastCall.file[1])>>
    ELSE lastCall.ret = <<"o","t","h","e","r">>

\* C27: for method = size and every non-negative integer size the target
\* directory is small when size < 1 MiB (1048576), medium when
\* 1 MiB <= size < 100 MiB (104857600), and large when size >= 100 MiB
C27_SizeBucket ==
  (lastCall.op = "getTargetDirectory" /\ options.method = "size") =>
    /\ lastCall.stats.size < 1048576 => lastCall.ret = <<"s","m","a","l","l">>
    /\ (1048576 <= lastCall.stats.size /\ lastCall.stats.size < 104857600) =>
         lastCall.ret = <<"m","e","d","i","u","m">>
    /\ lastCall.stats.size >= 104857600 => lastCall.ret = <<"l","a","r","g","e">>

\* a file of exactly 1 MiB has been put under medium
C27_Witness ==
  /\ lastCall.op = "getTargetDirectory"
  /\ options.method = "size"
  /\ lastCall.stats.size = 1048576
  /\ lastCall.ret = <<"m","e","d","i","u","m">>

\* the directory, below the organized one, that a logged mapping sends its file to
TargetDirectoryOf(m, directory) ==
  SubSeq(m.targetPath, Len(directory) + 2,
         Len(m.targetPath) - Len(FileNameOf(m.sourcePath)) - 1)

\* C28: the target directory is deterministic: for every (filename, size,
\* mtime, method) it is the same on every call, independent of the order of
\* calls, of stats accumulated by earlier calls, and of the file's source
\* directory
C28_Deterministic ==
  \A i, j \in 1..Len(history) :
    \A a \in 1..Len(history[i].fileMappings), b \in 1..Len(history[j].fileMappings) :
      LET m == history[i].fileMappings[a]
          n == history[j].fileMappings[b]
      IN  /\ TargetDirectoryOf(m, history[i].directory)
               = getTargetDirectory(history[i].method, FileNameOf(m.sourcePath),
                                    [size |-> m.size, mtime |-> m.modifiedTime[2]])
          /\ (/\ FileNameOf(m.sourcePath) = FileNameOf(n.sourcePath)
              /\ m.size = n.size
              /\ m.modifiedTime = n.modifiedTime
              /\ history[i].method = history[j].method) =>
               TargetDirectoryOf(m, history[i].directory)
                 = TargetDirectoryOf(n, history[j].directory)

\* a file mapped by a first run is mapped again by a second, from another
\* directory and after the stats have counted it, to the same target directory
C28_Witness ==
  \E i, j \in 1..Len(history) :
    /\ i < j
    /\ ~history[i].isReversed /\ ~history[j].isReversed
    /\ history[i].filesProcessed > 0
    /\ \E a \in 1..Len(history[i].fileMappings), b \in 1..Len(history[j].fileMappings) :
         LET m == history[i].fileMappings[a]
             n == history[j].fileMappings[b]
         IN  /\ FileNameOf(m.sourcePath) = FileNameOf(n.sourcePath)
             /\ m.size = n.size
             /\ m.modifiedTime = n.modifiedTime
             /\ DirOf(m.sourcePath) # DirOf(n.sourcePath)
             /\ TargetDirectoryOf(m, Base) = TargetDirectoryOf(n, Base)

\* C29: within one organize run the before snapshot is complete before the
\* first move starts; moves run batch by batch, a batch starting only after
\* every move of the batch before has settled, with never more in-flight moves
\* than the batch size; the history write happens only after the last move has
\* settled, so a run interrupted before that point leaves no history record
C29_Phases ==
  [][/\ (files' # files \/ dirs' # dirs) =>
          /\ Moving
          /\ lastCall.inFlight > 0
          /\ lastCall'.initialStructure = lastCall.initialStructure
          /\ \E scan \in Orders(findFiles([files |-> lastCall.scanned, dirs |-> dirs],
                                           Base)) :
               lastCall.initialStructure = buildDirectoryStructure(scan, Base)
     /\ (Moving' /\ lastCall'.next = 1) => files' = lastCall'.scanned
     /\ Moving' =>
          /\ lastCall'.inFlight <= BatchSize
          /\ lastCall'.next + lastCall'.inFlight <= Len(lastCall'.mappings) + 1
     /\ (Moving /\ Moving' /\ lastCall'.inFlight > lastCall.inFlight) =>
          /\ lastCall.inFlight = 0
          /\ Len(lastCall.moved) = lastCall.next - 1
     /\ history' # history =>
          /\ Moving
          /\ lastCall.next > Len(lastCall.mappings)
          /\ lastCall.inFlight = 0
          /\ Len(lastCall.moved) = Len(lastCall.mappings)
          /\ UNCHANGED <<files, dirs>>
          /\ Len(history') = Len(history) + 1
          /\ history'[Len(history')].beforeStructure = lastCall.initialStructure
          /\ history'[Len(history')].afterStructure = lastCall.structure
     /\ (lastCall'.op = "organize" /\ lastCall'.phase \in {"moving", "interrupted"}) =>
          /\ Len(history') = lastCall'.records
          /\ SubSeq(history', 1, Len(history)) = history]_vars

\* a run of two mappings was interrupted after its first move: the file has
\* moved and no record was written
C29_Witness ==
  /\ lastCall.op = "organize"
  /\ lastCall.phase = "interrupted"
  /\ Len(lastCall.mappings) = 2
  /\ lastCall.next = 2
  /\ files # lastCall.scanned
  /\ ~options.dryRun
  /\ history = <<>>

\* mkdir -p of the directory of a path, then mv to the path
Relocate(fs, from, to) ==
  LET made == MkdirP(fs, DirOf(to))
      mv == Mv(made.fs, from, to)
  IN  IF ~made.ok THEN [fs |-> fs, moved |-> FALSE]
      ELSE IF ~mv.ok THEN [fs |-> made.fs, moved |-> FALSE]
      ELSE [fs |-> mv.fs, moved |-> TRUE]

\* the tree and the count after the first k attempts of a loop over logged
\* mappings: back for undo (last mapping first, target to source), otherwise
\* redo (logged order, source to target); an attempt looks at the tree the
\* attempt before it left
RECURSIVE AfterAttempts(_, _, _, _)
AfterAttempts(fs, mappings, k, back) ==
  IF k = 0 THEN [fs |-> fs, count |-> 0]
  ELSE LET prev == AfterAttempts(fs, mappings, k - 1, back)
           m == IF back THEN mappings[Len(mappings) - k + 1] ELSE mappings[k]
           from == IF back THEN m.targetPath ELSE m.sourcePath
           to == IF back THEN m.sourcePath ELSE m.targetPath
       IN  IF ~FileExists(prev.fs, from) THEN prev
           ELSE LET r == Relocate(prev.fs, from, to)
                IN  [fs |-> r.fs, count |-> prev.count + (IF r.moved THEN 1 ELSE 0)]

\* C30: undo attempts the logged mappings one at a time in reverse logged
\* order, moving target to source only when the target path currently exists;
\* redo attempts the original operation's mappings one at a time in logged
\* order, moving source to target only when the source path currently exists;
\* each mapping's check and move complete before the next mapping's check
C30_MappingOrder ==
  [][/\ (lastCall'.op = "undo" /\ lastCall'.ret) =>
          LET r == RecordOf(history, lastCall'.target)
              end == AfterAttempts([files |-> files, dirs |-> dirs], r.fileMappings,
                                   Len(r.fileMappings), TRUE)
          IN  /\ files' = end.fs.files
              /\ dirs' = end.fs.dirs
              /\ lastCall'.count = end.count
     /\ (lastCall'.op = "redo" /\ lastCall'.ret) =>
          LET u == RecordOf(history, lastCall'.target)
              o == RecordOf(history, u.originalOperationId)
              end == AfterAttempts([files |-> files, dirs |-> dirs], o.fileMappings,
                                   Len(o.fileMappings), FALSE)
          IN  /\ files' = end.fs.files
              /\ dirs' = end.fs.dirs
              /\ lastCall'.count = end.count]_vars

\* an undo of two mappings with one target: the file went back to the source
\* of the mapping logged last, and the mapping logged first found nothing
C30_Witness ==
  /\ lastCall.op = "undo"
  /\ lastCall.ret
  /\ lastCall.count = 1
  /\ \E r \in Range(history) :
       /\ r.id = lastCall.target
       /\ Len(r.fileMappings) = 2
       /\ r.fileMappings[1].targetPath = r.fileMappings[2].targetPath
       /\ r.fileMappings[1].sourcePath # r.fileMappings[2].sourcePath
       /\ ResolvePath(r.fileMappings[2].sourcePath) \in DOMAIN files
       /\ ResolvePath(r.fileMappings[1].sourcePath) \notin DOMAIN files

\* C31: if two undo(id) calls for the same not-yet-undone operation are
\* started without awaiting the first, at most one of them returns true and
\* at most one reversal record referencing id is persisted
C31_OverlappingUndo ==
  /\ Cardinality({c \in UndoCalls : Frames[c].ret}) <= 1
  /\ Cardinality({i \in 1..Len(history) :
                    history[i].isReversed /\ history[i].originalOperationId = RaceId}) <= 1

\* the contents held by the files of a file system
Contents(fs) == {fs[p].content : p \in DOMAIN fs}

\* C32: organize loses no data on a name collision: every file content present
\* before the run is still present at some path after it
C32_CollisionsKeepData ==
  [][Organize => Contents(files) \subseteq Contents(files')]_vars

\* C33: a logOrganization call that fails leaves nothing of its operation in the
\* store: neither the history record nor any of its per-file rows
C33_LogAllOrNothing ==
  (lastCall.op = "logOrganization" /\ lastCall.threw)
    => /\ getOperationById(history, lastCall.target) = {}
       /\ \A i \in 1..Len(fileOperations) : fileOperations[i].operationId # lastCall.target

\* C34: the filesProcessed and bytesMoved persisted in the history record of an
\* organize run count the successful moves of that run only, however many runs
\* the instance has made before
C34_StatsPerRun ==
  (lastCall.op = "organize" /\ lastCall.logged) =>
    LET record == RecordOf(history, lastCall.target)
    IN  /\ record.filesProcessed + Failed(lastCall.moved) = Len(lastCall.mappings)
        /\ record.bytesMoved = MovedBytes(lastCall.mappings, lastCall.moved)

\* C35: the afterStructure persisted for a real run lists a file under a target
\* directory only if the move of that file succeeded, and every mapping the
\* record is logged with is one that was carried out
C35_AfterStructureIsPostMove ==
  (lastCall.op = "organize" /\ lastCall.logged) =>
    LET record == RecordOf(history, lastCall.target)
    IN  /\ \A d \in DOMAIN record.afterStructure :
             \A n \in record.afterStructure[d] :
               \E i \in 1..Len(lastCall.mappings) :
                 /\ lastCall.mappings[i].targetPath = d \o <<"/">> \o n
                 /\ lastCall.moved[i]
        /\ \A i \in 1..Len(record.fileMappings) : lastCall.moved[i]

\* C36: a candidate file handed to processFile ends in exactly one of three
\* outcomes: a mapping is produced, a reason is appended to stats.skipped, or a
\* message is appended to stats.errors; none is dropped silently
C36_OneOutcomePerCandidate ==
  lastCall.op = "processFile" =>
    (IF lastCall.ret # NoMapping THEN 1 ELSE 0) + lastCall.skipped + lastCall.errors = 1

\* the ids of the records that are not reversals and that no reversal references
Undoable(h) ==
  {h[i].id : i \in {k \in 1..Len(h) :
                      /\ ~h[k].isReversed
                      /\ \A j \in 1..Len(h) :
                           h[j].isReversed => h[j].originalOperationId # h[k].id}}

\* C37: availableUndos is the number of ids undo(id) would accept, the records
\* that are not reversals and that no reversal references, undo(id) is accepted
\* for exactly those ids, and availableRedos is the number of reversal records
\* that carry an originalOperationId
C37_AvailableCounts ==
  [][/\ getStats(history).availableUndos = Cardinality(Undoable(history))
     /\ getStats(history).availableRedos =
          Cardinality({i \in 1..Len(history) :
                         history[i].isReversed /\ history[i].originalOperationId # 0})
     /\ \A id \in 1..MaxOps :
          undo(id) => (lastCall'.ret <=> id \in Undoable(history))]_vars

\* two runs were logged and one of them has been undone: one undo is left and
\* one redo is offered
C37_Witness ==
  /\ lastCall.op = "undo"
  /\ lastCall.ret
  /\ Len(history) = 3
  /\ getStats(history).availableUndos = 1
  /\ getStats(history).availableRedos = 1

\* C38: undo() without an id resolves to the newest record that is not a
\* reversal, whether or not it has been undone already; when it has, the call
\* returns false, moves nothing and writes nothing, even though an older record
\* is still undoable by its id
C38_UndoNeverFallsBack ==
  [][undo(0) =>
       /\ lastCall'.op = "undo"
       /\ \A i \in 1..Len(history) :
            (/\ ~history[i].isReversed
             /\ \A j \in 1..Len(history) :
                  ~history[j].isReversed => history[j].timestamp <= history[i].timestamp)
              => /\ lastCall'.target = history[i].id
                 /\ history[i].id \notin Undoable(history)
                      => /\ ~lastCall'.ret
                         /\ files' = files
                         /\ dirs' = dirs
                         /\ history' = history]_vars

\* organize A, organize B, undo(), undo(): the second undo resolved to B again
\* and was refused while A is the one undo getStats still counts
C38_Witness ==
  /\ lastCall.op = "undo"
  /\ ~lastCall.ret
  /\ lastCall.target = 2
  /\ Len(history) = 3
  /\ history[3].isReversed
  /\ history[3].originalOperationId = 2
  /\ Undoable(history) = {1}
  /\ getStats(history).availableUndos = 1

Yes == { <<"y">>, <<"Y">>, <<"y","e","s">>, <<"Y","e","s"," ">>, <<" ","y">> }

====
